---- MODULE Spec2Model ----
(***************************************************************************)
(* The in-memory job store of the quantum dashboard (server/storage.ts,    *)
(* class MemStorage), the scheduler tick that mutates it, and the routes   *)
(* of server/routes.ts that call it.                                       *)
(*                                                                         *)
(* Times are milliseconds since the construction of the store (Date        *)
(* values); the seeded jobs carry negative times (hours in the past).      *)
(* A nullable field is a sequence: <<>> is null, <<v>> holds the value v.  *)
(* Job ids are fresh on every creation (randomUUID / Date.now()), modelled *)
(* by the counter nextId.  A Job keeps its id and the fields the lifecycle *)
(* reads and writes; name, program, qubits, shots, tags, sessionId and the *)
(* results payload are carried through unread and are left out.            *)
(***************************************************************************)
EXTENDS Integers, Sequences, FiniteSets, TLC

VARIABLES
    jobs,       \* MemStorage.jobs: Map<string, Job>, a function id -> Job
    backends,   \* MemStorage.backends: Map<string, Backend>, name -> Backend
    now,        \* the wall clock (Date.now()), in ms
    nextId,     \* the next fresh job id
    pending,    \* ids of quest jobs whose setTimeout callback has not run
    ret,        \* what the last operation returned to its caller
    ops         \* how many operations have run

vars == <<jobs, backends, now, nextId, pending, ret, ops>>

----------------------------------------------------------------------------
(* Bounds of the model *)

MaxJobs == 3        \* ids ever handed out (seeded + created + spawned)
SeedCount == 1      \* sample jobs in the store after construction
MaxOps == 3         \* operations (requests, ticks, callbacks) in a run
MaxClock == 1       \* clock steps the model takes
MaxStatsJobs == 4   \* jobs in the store of the statistics specification

(* Program constants *)

MsPerSecond == 1000
MsPerHour == 3600000
SeedMinRun == 30000
QuestMinDelay == 2000

\* one step of the model's clock: 2.5 s
TimeStep == (5 * MsPerSecond) \div 2

Null == <<>>
Some(v) == <<v>>

JobStatus == {"queued", "running", "done", "failed", "cancelled"}

\* the status of a request body: insertJobSchema takes any string, and the PATCH
\* route passes req.body.status on unchecked; "paused" stands for the strings
\* outside the JobStatus type
RequestStatuses == JobStatus \cup {"paused"}

StoreBackends == {"ibm_cairo", "ibm_osaka"}
SpawnBackends == {"ibm_cairo", "ibm_osaka"}
JobBackends == {"ibm_cairo", "ibm_osaka"}
QuestBackends == {"ibm_qasm_simulator"}

SeedQueueLength == [b \in StoreBackends |-> IF b = "ibm_cairo" THEN 2 ELSE 12]

\* the error argument of updateJobStatus: absent, empty, or a message
ErrorArgs == {Null, Some(""), Some("boom")}

JobIds == 1..MaxJobs

\* what an operation hands back: nothing, a Job, undefined, a boolean, the statistics
RetVoid == [kind |-> "void"]
RetJob == [kind |-> "job"]
RetNone == [kind |-> "none"]
RetBool(v) == [kind |-> "bool", value |-> v]
RetStats(st) == [kind |-> "stats", stats |-> st]

----------------------------------------------------------------------------
(* Pure helpers *)

\* Array.from(jobs.values()).filter(j => j.backend === b && j.status === "queued")
QueuedAnywhere(js, b) == {i \in DOMAIN js : js[i].status = "queued"}
QueuedOn(js, b) == {i \in DOMAIN js : js[i].backend = b /\ js[i].status = "queued"}

\* getNextQueuePosition: queuedJobs.length + 1
getNextQueuePositionNoIncrement(js, b) == Cardinality(QueuedOn(js, b))
getNextQueuePosition(js, b) == Cardinality(QueuedOn(js, b)) + 1

\* Math.floor((end - start) / 1000)
durationSecondsRounded(start, end) == (end - start + MsPerSecond \div 2) \div MsPerSecond
durationSeconds(start, end) == (end - start) \div MsPerSecond

\* error || null
orNull(e) == IF e = Null \/ e = Some("") THEN Null ELSE e

----------------------------------------------------------------------------
(* The store after construction: initializeData / initializeSampleJobs *)

HoursAgoSet == {0, 5, 24}       \* Math.floor(Math.random() * 168), one per branch
SeedDelays == {0, TimeStep}     \* Math.random() * 3600000 (or 1800000)
SeedPositions == {1, 2}         \* Math.floor(Math.random() * 15) + 1

\* the status a sample job may get, by its age in hours
SeedStatuses(h) ==
    IF h < 2 THEN {"running", "queued"}
    ELSE IF h < 12 THEN {"done", "running", "failed", "cancelled"}
    ELSE {"done", "failed", "cancelled"}

\* the sample job id: status s, submitted h hours ago, random delay r, position q
SeedJob(id, b, h, s, r, q) ==
    LET sub == 0 - h * MsPerHour
        start == sub + r
        end == start + r + SeedMinRun
        ended == s \in {"done", "failed"}
    IN  [ id             |-> id,
          backend        |-> b,
          status         |-> s,
          queuePosition  |-> IF s = "queued" THEN Some(q) ELSE Null,
          submissionTime |-> sub,
          startTime      |-> IF s = "running" \/ ended THEN Some(start) ELSE Null,
          endTime        |-> IF ended THEN Some(end) ELSE Null,
          duration       |-> IF ended THEN Some(durationSeconds(start, end)) ELSE Null,
          error          |-> IF s = "failed"
                               THEN Some("Quantum circuit execution timeout") ELSE Null ]

SeedJobs ==
    { SeedJob(id, b, h, s, r, q) :
        id \in 1..SeedCount, b \in SpawnBackends, h \in HoursAgoSet, s \in JobStatus,
        r \in SeedDelays, q \in SeedPositions }

SeedShapes == { j \in SeedJobs : j.status \in SeedStatuses((0 - j.submissionTime) \div MsPerHour) }

Init ==
    /\ jobs \in {f \in [1..SeedCount -> SeedShapes] : \A i \in 1..SeedCount : f[i].id = i}
    /\ backends = [b \in StoreBackends |-> [name |-> b, queueLength |-> SeedQueueLength[b]]]
    /\ now = 0
    /\ nextId = SeedCount + 1
    /\ pending = {}
    /\ ret = RetVoid
    /\ ops = 0

----------------------------------------------------------------------------
(* MemStorage operations, as functions of the store *)

\* createJob: the Job object built from the InsertJob
NewJob(js, id, b, s, t) ==
    [ id             |-> id,
      backend        |-> b,
      status         |-> s,
      queuePosition  |-> IF s = "queued" THEN Some(getNextQueuePosition(js, b)) ELSE Null,
      submissionTime |-> t,
      startTime      |-> Null,
      endTime        |-> Null,
      duration       |-> Null,
      error          |-> Null ]

createJob(js, id, b, s, t) == js @@ (id :> NewJob(js, id, b, s, t))

\* updateJobStatus: the updated Job object ({...job, status, error: error || null})
UpdatedJobNoDuration(job, s, e, t) ==
    LET base == [job EXCEPT !.status = s, !.error = orNull(e)]
    IN  IF s = "running" /\ job.status = "queued"
          THEN [base EXCEPT !.startTime = Some(t), !.queuePosition = Null]
        ELSE IF s \in {"done", "failed"} /\ job.status = "running"
          THEN [base EXCEPT !.endTime = Some(t)]
        ELSE base
UpdatedJobRestarted(job, s, e, t) ==
    LET base == [job EXCEPT !.status = s, !.error = orNull(e)]
    IN  IF s = "running"
          THEN [base EXCEPT !.startTime = Some(t), !.queuePosition = Null]
        ELSE IF s \in {"done", "failed"} /\ job.status = "running"
          THEN [base EXCEPT !.endTime = Some(t),
                            !.duration = IF job.startTime # Null
                                           THEN Some(durationSeconds(job.startTime[1], t))
                                           ELSE @]
        ELSE base
UpdatedJobResubmitted(job, s, e, t) ==
    LET base == [job EXCEPT !.status = s, !.error = orNull(e), !.submissionTime = t]
    IN  IF s = "running" /\ job.status = "queued"
          THEN [base EXCEPT !.startTime = Some(t), !.queuePosition = Null]
        ELSE IF s \in {"done", "failed"} /\ job.status = "running"
          THEN [base EXCEPT !.endTime = Some(t),
                            !.duration = IF job.startTime # Null
                                           THEN Some(durationSeconds(job.startTime[1], t))
                                           ELSE @]
        ELSE base
UpdatedJob(job, s, e, t) ==
    LET base == [job EXCEPT !.status = s, !.error = orNull(e)]
    IN  IF s = "running" /\ job.status = "queued"
          THEN [base EXCEPT !.startTime = Some(t), !.queuePosition = Null]
        ELSE IF s \in {"done", "failed"} /\ job.status = "running"
          THEN [base EXCEPT !.endTime = Some(t),
                            !.duration = IF job.startTime # Null
                                           THEN Some(durationSeconds(job.startTime[1], t))
                                           ELSE @]
        ELSE base

updateJobStatusUpsert(js, id, s, e, t) ==
    IF id \notin DOMAIN js THEN js @@ (id :> NewJob(js, id, "ibm_cairo", s, t))
    ELSE [js EXCEPT ![id] = UpdatedJob(js[id], s, e, t)]
updateJobStatus(js, id, s, e, t) ==
    IF id \notin DOMAIN js THEN js
    ELSE [js EXCEPT ![id] = UpdatedJob(js[id], s, e, t)]

\* deleteJob: Map.delete, and its return value
deleteJobRenumbering(js, id) ==
    [i \in DOMAIN js \ {id} |->
        IF /\ id \in DOMAIN js
           /\ js[id].queuePosition # Null /\ js[i].queuePosition # Null
           /\ js[i].backend = js[id].backend
           /\ js[i].queuePosition[1] > js[id].queuePosition[1]
          THEN [js[i] EXCEPT !.queuePosition = Some(@[1] - 1)]
          ELSE js[i]]
deleteJob(js, id) == [i \in DOMAIN js \ {id} |-> js[i]]
deleteJobResultAlways(js, id) == TRUE
deleteJobResult(js, id) == id \in DOMAIN js

----------------------------------------------------------------------------
(* The scheduler tick: simulateJobStatusChanges and its helpers *)

\* promote: the chosen queued job starts (p = 0: the draw chose none)
promoteAllQueued(js, p, t) ==
    IF p = 0 THEN js
    ELSE [i \in DOMAIN js |->
            IF js[i].status = "queued"
              THEN [js[i] EXCEPT !.status = "running",
                                 !.startTime = Some(t),
                                 !.queuePosition = Null]
              ELSE js[i]]
promote(js, p, t) ==
    IF p = 0 THEN js
    ELSE [js EXCEPT ![p].status = "running",
                    ![p].startTime = Some(t),
                    ![p].queuePosition = Null]

\* resolve: the chosen running job ends as outcome (r = 0: none)
resolve(js, r, outcome, t) ==
    IF r = 0 THEN js
    ELSE [js EXCEPT
            ![r].endTime = Some(t),
            ![r].duration = IF js[r].startTime # Null
                              THEN Some(durationSeconds(js[r].startTime[1], t))
                              ELSE @,
            ![r].status = outcome,
            ![r].error = IF outcome = "failed"
                           THEN Some("Quantum circuit execution error") ELSE @]

\* addRandomJob: a synthetic queued job on backend b (b = "": the draw chose none)
addRandomJobNoPosition(js, id, b, t) ==
    IF b = "" THEN js
    ELSE js @@ (id :> [ id             |-> id,
                        backend        |-> b,
                        status         |-> "queued",
                        queuePosition  |-> Null,
                        submissionTime |-> t,
                        startTime      |-> Null,
                        endTime        |-> Null,
                        duration       |-> Null,
                        error          |-> Null ])
addRandomJob(js, id, b, t) ==
    IF b = "" THEN js
    ELSE js @@ (id :> [ id             |-> id,
                        backend        |-> b,
                        status         |-> "queued",
                        queuePosition  |-> Some(Cardinality(QueuedOn(js, b)) + 1),
                        submissionTime |-> t,
                        startTime      |-> Null,
                        endTime        |-> Null,
                        duration       |-> Null,
                        error          |-> Null ])

\* updateBackendQueues: every backend's queueLength recomputed
updateBackendQueuesAnyStatus(bs, js) ==
    [k \in DOMAIN bs |->
        [bs[k] EXCEPT !.queueLength =
            Cardinality({i \in DOMAIN js : js[i].backend = bs[k].name})]]
updateBackendQueues(bs, js) ==
    [k \in DOMAIN bs |->
        [bs[k] EXCEPT !.queueLength = Cardinality(QueuedOn(js, bs[k].name))]]

\* the whole tick, for the draws (p, r, outcome, b); the running jobs r is drawn
\* from are those running before the promotion
simulateJobStatusChanges(js, p, r, outcome, id, b, t) ==
    addRandomJob(resolve(promote(js, p, t), r, outcome, t), id, b, t)

StatusIds(js, s) == {i \in DOMAIN js : js[i].status = s}

----------------------------------------------------------------------------
(* getJobStats; successRate is kept in tenths: Math.round(rate * 10) / 10 *)

roundTenthsTruncated(num, den) == (1000 * num) \div den
roundTenths(num, den) == (2000 * num + den) \div (2 * den)

getJobStats(js) ==
    LET completed == StatusIds(js, "done") \cup StatusIds(js, "failed")
        successful == {i \in completed : js[i].status = "done"}
    IN  [ totalJobs   |-> Cardinality(DOMAIN js),
          runningJobs |-> Cardinality(StatusIds(js, "running")),
          queuedJobs  |-> Cardinality(StatusIds(js, "queued")),
          successRateTenths |->
              IF Cardinality(completed) > 0
                THEN roundTenths(Cardinality(successful), Cardinality(completed))
                ELSE 0 ]

----------------------------------------------------------------------------
(* Actions: one per operation of the store, route handler or timer callback *)

QuestDurations == 2..4      \* Math.floor(Math.random() * 3 + 2)

\* one more operation runs
Step == ops < MaxOps /\ ops' = ops + 1

\* POST /api/jobs -> storage.createJob
CreateJobOp(b, s) ==
    /\ Step
    /\ nextId <= MaxJobs
    /\ jobs' = createJob(jobs, nextId, b, s, now)
    /\ nextId' = nextId + 1
    /\ ret' = RetJob
    /\ UNCHANGED <<backends, now, pending>>

\* PATCH /api/jobs/:id/status -> storage.updateJobStatus
UpdateJobStatusOp(id, s, e) ==
    /\ Step
    /\ jobs' = updateJobStatus(jobs, id, s, e, now)
    /\ ret' = IF id \in DOMAIN jobs THEN RetJob ELSE RetNone
    /\ UNCHANGED <<backends, now, nextId, pending>>

\* the HTTP status of the PATCH route for what updateJobStatus returned
patchStatusResponse(r) == IF r = RetNone THEN 404 ELSE 200

\* DELETE /api/jobs/:id -> storage.deleteJob
DeleteJobOp(id) ==
    /\ Step
    /\ jobs' = deleteJob(jobs, id)
    /\ ret' = RetBool(deleteJobResult(jobs, id))
    /\ UNCHANGED <<backends, now, nextId, pending>>

\* the setInterval callback: promote, resolve, spawn, reconcile
TickOp(p, r, outcome, b) ==
    /\ Step
    /\ b # "" => nextId <= MaxJobs
    /\ jobs' = simulateJobStatusChanges(jobs, p, r, outcome, nextId, b, now)
    /\ backends' = updateBackendQueues(backends, jobs')
    /\ nextId' = IF b = "" THEN nextId ELSE nextId + 1
    /\ ret' = RetVoid
    /\ UNCHANGED <<now, pending>>

\* POST /api/quantum/submit-job: createJob, then setTimeout of the completion
SubmitQuestOp(b) ==
    /\ Step
    /\ nextId <= MaxJobs
    /\ jobs' = createJob(jobs, nextId, b, "queued", now)
    /\ pending' = pending \cup {nextId}
    /\ nextId' = nextId + 1
    /\ ret' = RetJob
    /\ UNCHANGED <<backends, now>>

\* the setTimeout callback of submit-job: the stored object is changed in place
\* (getJobById returns the stored reference), then updateJobStatus(id, "done")
questMutate(js, id, d, t) ==
    IF id \notin DOMAIN js THEN js
    ELSE [js EXCEPT ![id].status = "done",
                    ![id].endTime = Some(t),
                    ![id].duration = Some(d)]

QuestCallbackOp(id, d) ==
    /\ Step
    /\ id \in pending
    /\ id \in DOMAIN jobs => now >= jobs[id].submissionTime + QuestMinDelay
    /\ jobs' = updateJobStatus(questMutate(jobs, id, d, now), id, "done", Null, now)
    /\ pending' = pending \ {id}
    /\ ret' = RetVoid
    /\ UNCHANGED <<backends, now, nextId>>

CreateJob == \E b \in JobBackends, s \in RequestStatuses : CreateJobOp(b, s)

UpdateJobStatus ==
    \E id \in JobIds, s \in RequestStatuses, e \in ErrorArgs : UpdateJobStatusOp(id, s, e)

DeleteJob == \E id \in JobIds : DeleteJobOp(id)

\* the draws of a tick: the job to promote among the queued jobs, the job to
\* resolve among the jobs that run before the promotion (p, r = 0: none)
TickResolveAfterPromote ==
    \E p \in {0} \cup StatusIds(jobs, "queued"),
       outcome \in {"done", "failed"},
       b \in {""} \cup SpawnBackends :
          \E r \in {0} \cup StatusIds(promote(jobs, p, now), "running") :
              TickOp(p, r, outcome, b)
Tick ==
    \E p \in {0} \cup StatusIds(jobs, "queued"),
       r \in {0} \cup StatusIds(jobs, "running"),
       outcome \in {"done", "failed"},
       b \in {""} \cup SpawnBackends : TickOp(p, r, outcome, b)

SubmitQuest == \E b \in QuestBackends : SubmitQuestOp(b)

QuestCallback == \E id \in pending, d \in QuestDurations : QuestCallbackOp(id, d)

\* GET /api/analytics/stats -> storage.getJobStats
GetJobStats ==
    /\ ret' = RetStats(getJobStats(jobs))
    /\ UNCHANGED <<jobs, backends, now, nextId, pending, ops>>

\* time passes
Advance ==
    /\ now < MaxClock * TimeStep
    /\ now' = now + TimeStep
    /\ UNCHANGED <<jobs, backends, nextId, pending, ret, ops>>

Next ==
    \/ CreateJob
    \/ UpdateJobStatus
    \/ DeleteJob
    \/ Tick
    \/ SubmitQuest
    \/ QuestCallback
    \/ Advance

Spec == Init /\ [][Next]_vars

----------------------------------------------------------------------------
(* The statistics on their own: a store of up to MaxStatsJobs jobs, each     *)
(* created by createJob with some status, and the stats query on it.        *)

RECURSIVE BuildStore(_)
BuildStore(ss) ==
    IF ss = <<>> THEN <<>>
    ELSE createJob(BuildStore(SubSeq(ss, 1, Len(ss) - 1)), Len(ss), "ibm_cairo", ss[Len(ss)], 0)

StatsStores ==
    { BuildStore(ss) : ss \in UNION { [1..k -> JobStatus] : k \in 0..MaxStatsJobs } }

StatsInit ==
    /\ jobs \in StatsStores
    /\ backends = [b \in StoreBackends |-> [name |-> b, queueLength |-> SeedQueueLength[b]]]
    /\ now = 0
    /\ nextId = Cardinality(DOMAIN jobs) + 1
    /\ pending = {}
    /\ ret = RetVoid
    /\ ops = 0

StatsNext == GetJobStats

SpecStats == StatsInit /\ [][StatsNext]_vars

----------------------------------------------------------------------------
(* The backends of the store: createBackend and updateBackend of the storage *)
(* interface, next to the operations on jobs and the tick.                   *)

BackendNames == StoreBackends \cup {"ibm_new"}

\* the queueLength of the caller's InsertBackend / Partial<Backend>: absent or given
QueueLengthArgs == {Null, Some(7)}

RetBackend == [kind |-> "backend"]

\* createBackend: Map.set(name, {..., queueLength: insertBackend.queueLength ?? 0})
createBackend(bs, name, q) ==
    [k \in DOMAIN bs \cup {name} |->
        IF k = name
          THEN [name |-> name, queueLength |-> IF q = Null THEN 0 ELSE q[1]]
          ELSE bs[k]]

\* updateBackend: {...backend, ...updates}
updateBackend(bs, id, q) ==
    IF id \notin DOMAIN bs THEN bs
    ELSE [bs EXCEPT ![id].queueLength = IF q = Null THEN @ ELSE q[1]]

CreateBackendOp(name, q) ==
    /\ Step
    /\ backends' = createBackend(backends, name, q)
    /\ ret' = RetBackend
    /\ UNCHANGED <<jobs, now, nextId, pending>>

UpdateBackendOp(id, q) ==
    /\ Step
    /\ backends' = updateBackend(backends, id, q)
    /\ ret' = IF id \in DOMAIN backends THEN RetBackend ELSE RetNone
    /\ UNCHANGED <<jobs, now, nextId, pending>>

CreateBackend == \E name \in BackendNames, q \in QueueLengthArgs : CreateBackendOp(name, q)

UpdateBackend == \E id \in BackendNames, q \in QueueLengthArgs : UpdateBackendOp(id, q)

NextBackends ==
    \/ CreateJob
    \/ UpdateJobStatus
    \/ DeleteJob
    \/ Tick
    \/ CreateBackend
    \/ UpdateBackend

SpecBackends == Init /\ [][NextBackends]_vars

----------------------------------------------------------------------------
(* The resource fields of a job: qubits, shots and program are written when  *)
(* the job enters the store and never after, so this specification keeps a   *)
(* job as those three fields and has the operations that add jobs: the       *)
(* constructor's sample jobs, POST /api/jobs behind insertJobSchema, the     *)
(* tick's addRandomJob, and POST /api/quantum/submit-job behind its schema.  *)

MinQubits == 1
MaxQubits == 1000
MinShots == 1
MaxShots == 100000

\* the request bodies: values at and just outside the limits of the schemas
QubitArgs == {MinQubits - 1, MinQubits, MaxQubits, MaxQubits + 1}
ShotArgs == {MinShots - 1, MinShots, MaxShots, MaxShots + 1}
ProgramArgs == {"", "x"}

\* initializeSampleJobs: qubits floor(random * 100) + 5, shots 2^(10 .. 19)
SeedQubits == {5, 104}
SeedShots == {2^10, 2^19}

\* addRandomJob: qubits floor(random * 50) + 10, shots 2^(10 .. 15)
SpawnQubits == {10, 59}
SpawnShots == {2^10, 2^15}

\* submit-job: qubits: 2
QuestQubits == 2

RetHttp(code) == [kind |-> "http", status |-> code]

\* insertJobSchema.parse: qubits min(1).max(1000), shots min(1).max(100000),
\* program min(1)
insertJobSchema(p) ==
    /\ MinQubits <= p.qubits /\ p.qubits <= MaxQubits
    /\ MinShots <= p.shots /\ p.shots <= MaxShots
    /\ p.program # ""

\* quantumJobSubmissionSchema.parse: shots int().min(1).max(100000), circuitCode min(1)
quantumJobSubmissionSchema(p) ==
    /\ MinShots <= p.shots /\ p.shots <= MaxShots
    /\ p.program # ""

ResourceInit ==
    /\ jobs \in [1..SeedCount -> [qubits : SeedQubits, shots : SeedShots, program : {"x"}]]
    /\ backends = [b \in StoreBackends |-> [name |-> b, queueLength |-> SeedQueueLength[b]]]
    /\ now = 0
    /\ nextId = SeedCount + 1
    /\ pending = {}
    /\ ret = RetVoid
    /\ ops = 0

\* POST /api/jobs: 400 on a ZodError, else createJob and 201
PostJobOp(p) ==
    /\ Step
    /\ IF insertJobSchema(p)
         THEN /\ nextId <= MaxJobs
              /\ jobs' = jobs @@ (nextId :> p)
              /\ nextId' = nextId + 1
              /\ ret' = RetHttp(201)
         ELSE /\ ret' = RetHttp(400)
              /\ UNCHANGED <<jobs, nextId>>
    /\ UNCHANGED <<backends, now, pending>>

\* POST /api/quantum/submit-job: 400 on a ZodError, else createJob and 200
PostQuestOp(p) ==
    /\ Step
    /\ IF quantumJobSubmissionSchema(p)
         THEN /\ nextId <= MaxJobs
              /\ jobs' = jobs @@ (nextId :> [p EXCEPT !.qubits = QuestQubits])
              /\ nextId' = nextId + 1
              /\ ret' = RetHttp(200)
         ELSE /\ ret' = RetHttp(400)
              /\ UNCHANGED <<jobs, nextId>>
    /\ UNCHANGED <<backends, now, pending>>

\* the tick's addRandomJob
SpawnJobOp(q, s) ==
    /\ Step
    /\ nextId <= MaxJobs
    /\ jobs' = jobs @@ (nextId :> [qubits |-> q, shots |-> s, program |-> "x"])
    /\ nextId' = nextId + 1
    /\ ret' = RetVoid
    /\ UNCHANGED <<backends, now, pending>>

PostJob == \E p \in [qubits : QubitArgs, shots : ShotArgs, program : ProgramArgs] : PostJobOp(p)

PostQuest == \E p \in [qubits : {QuestQubits}, shots : ShotArgs, program : ProgramArgs] : PostQuestOp(p)

SpawnJob == \E q \in SpawnQubits, s \in SpawnShots : SpawnJobOp(q, s)

NextResources ==
    \/ PostJob
    \/ PostQuest
    \/ SpawnJob

SpecResources == ResourceInit /\ [][NextResources]_vars

----------------------------------------------------------------------------
(* The trends query: GET /api/analytics/trends over storage.getJobs().  A    *)
(* date (toISOString().split('T')[0], the UTC calendar date) is a day number;*)
(* the store is constructed at noon of day 0.                                *)

DefaultLimit == 100     \* getJobs(limit = 100, offset = 0)
TrendDays == 7          \* Array.from({ length: 7 }, ...)
MaxTrendJobs == 101     \* jobs in the store of the trends specification

MsPerDay == 24 * MsPerHour
StartOfDay == 12 * MsPerHour

dayOf(t) == (t + StartOfDay) \div MsPerDay

\* getJobs: the jobs sorted by submissionTime, newest first (the sort is stable:
\* jobs of one time stay in insertion order); rank is a job's place in that order
rank(js, i) ==
    1 + Cardinality({k \in DOMAIN js :
            \/ js[k].submissionTime > js[i].submissionTime
            \/ (js[k].submissionTime = js[i].submissionTime /\ k < i)})

\* allJobs.slice(offset, offset + limit), as the set of the ids in the slice
getJobs(js, limit, offset) ==
    {i \in DOMAIN js : offset < rank(js, i) /\ rank(js, i) <= offset + limit}

\* last7Days.map(date => ({date, count: jobs.filter(... === date).length}))
getTrends(js, t) ==
    LET page == getJobs(js, DefaultLimit, 0)
    IN  [i \in 1..TrendDays |->
            [ date  |-> dayOf(t) - (TrendDays - i),
              count |-> Cardinality({k \in page :
                            dayOf(js[k].submissionTime) = dayOf(t) - (TrendDays - i)}) ]]

RetTrends(tr) == [kind |-> "trends", trends |-> tr]

\* how many days the submissions of a store reach back
TrendSpreads == {1, 2, 8}

\* a store of n jobs created over the last p days, the oldest first
TrendStore(n, p) ==
    [i \in 1..n |-> NewJob(<<>>, i, "ibm_cairo", "done", 0 - (((n - i) * p) \div n) * MsPerDay)]

TrendsInit ==
    /\ jobs \in {TrendStore(n, p) : n \in 0..MaxTrendJobs, p \in TrendSpreads}
    /\ backends = [b \in StoreBackends |-> [name |-> b, queueLength |-> SeedQueueLength[b]]]
    /\ now = 0
    /\ nextId = Cardinality(DOMAIN jobs) + 1
    /\ pending = {}
    /\ ret = RetVoid
    /\ ops = 0

GetTrends ==
    /\ ret' = RetTrends(getTrends(jobs, now))
    /\ UNCHANGED <<jobs, backends, now, nextId, pending, ops>>

TrendsNext == GetTrends

SpecTrends == TrendsInit /\ [][TrendsNext]_vars

----------------------------------------------------------------------------
(* The job list: GET /api/jobs?page&limit over storage.getJobs().  The page   *)
(* of the answer is the sequence of its job ids, in the order of the answer. *)

PageNumbers == {1, 2, 3, 11}
PageLimits == {10, 50}

\* Math.ceil(n / d)
ceilDiv(n, d) == (n + d - 1) \div d

RetPage(ids, page, pages, total, limit) ==
    [kind |-> "page", jobs |-> ids,
     pagination |-> [currentPage |-> page, totalPages |-> pages,
                     totalJobs |-> total, limit |-> limit]]

\* the handler: allJobs = await storage.getJobs(); totalJobs = allJobs.length;
\* paginatedJobs = allJobs.slice(offset, offset + limit)
getJobsPage(js, page, limit) ==
    LET allJobs   == getJobs(js, DefaultLimit, 0)
        totalJobs == Cardinality(allJobs)
        offset    == (page - 1) * limit
        slice     == {i \in allJobs : offset < rank(js, i) /\ rank(js, i) <= offset + limit}
    IN  RetPage([k \in 1..Cardinality(slice) |->
                    CHOOSE i \in slice : rank(js, i) = offset + k],
                page, ceilDiv(totalJobs, limit), totalJobs, limit)

GetJobsPageOp(page, limit) ==
    /\ ret' = getJobsPage(jobs, page, limit)
    /\ UNCHANGED <<jobs, backends, now, nextId, pending, ops>>

GetJobsPage == \E page \in PageNumbers, limit \in PageLimits : GetJobsPageOp(page, limit)

\* how many jobs the listed store holds
PageStoreSizes == {0, 9, 10, 11, DefaultLimit, MaxTrendJobs}

PagesInit ==
    /\ jobs \in {TrendStore(n, p) : n \in PageStoreSizes, p \in TrendSpreads}
    /\ backends = [b \in StoreBackends |-> [name |-> b, queueLength |-> SeedQueueLength[b]]]
    /\ now = 0
    /\ nextId = Cardinality(DOMAIN jobs) + 1
    /\ pending = {}
    /\ ret = RetVoid
    /\ ops = 0

PagesNext == GetJobsPage

SpecPages == PagesInit /\ [][PagesNext]_vars

----------------------------------------------------------------------------
(* The ticker: the setInterval callback of startJobSimulation calls           *)
(* simulateJobStatusChanges with no handler around it, so an error raised in  *)
(* one of its actions leaves the rest of the tick undone and ends the         *)
(* process.  The random draws of the tick are inputs: whether the promote     *)
(* and the resolve draw fall under their thresholds, and the job each picks.  *)

RetThrow == [kind |-> "throw"]

\* queuedJobs.length > 0 && Math.random() < 0.4
promoteChosenUnguarded(js, draw) == draw
promoteChosen(js, draw) == StatusIds(js, "queued") # {} /\ draw

\* runningJobs.length > 0 && Math.random() < 0.3
resolveChosen(js, draw) == StatusIds(js, "running") # {} /\ draw

\* list[Math.floor(Math.random() * list.length)]: a member of the list, and
\* undefined (0) when the list is empty
pickFrom(ids) == IF ids = {} THEN {0} ELSE ids

\* the tick with its draws; job.status = ... on an undefined job is a TypeError
TickerOp(dp, dr, p, r, outcome, b) ==
    /\ ret # RetThrow
    /\ p \in (IF promoteChosen(jobs, dp) THEN pickFrom(StatusIds(jobs, "queued")) ELSE {0})
    /\ r \in (IF resolveChosen(jobs, dr) THEN pickFrom(StatusIds(jobs, "running")) ELSE {0})
    /\ IF promoteChosen(jobs, dp) /\ p = 0
       THEN /\ Step
            /\ ret' = RetThrow
            /\ UNCHANGED <<jobs, backends, now, nextId, pending>>
       ELSE IF resolveChosen(jobs, dr) /\ r = 0
       THEN /\ Step
            /\ jobs' = promote(jobs, p, now)
            /\ ret' = RetThrow
            /\ UNCHANGED <<backends, now, nextId, pending>>
       ELSE TickOp(p, r, outcome, b)

Ticker ==
    \E dp \in BOOLEAN, dr \in BOOLEAN, p \in {0} \cup JobIds, r \in {0} \cup JobIds,
       outcome \in {"done", "failed"}, b \in {""} \cup SpawnBackends :
          TickerOp(dp, dr, p, r, outcome, b)

\* the requests that reach the store states of the tick; none is served once
\* the process has ended
TickerCreateJob == ret # RetThrow /\ CreateJob
TickerDeleteJob == ret # RetThrow /\ DeleteJob
TickerSubmitQuest == ret # RetThrow /\ SubmitQuest

NextTicker ==
    \/ TickerCreateJob
    \/ TickerDeleteJob
    \/ TickerSubmitQuest
    \/ Ticker

SpecTicker == Init /\ [][NextTicker]_vars

----------------------------------------------------------------------------
(* createJob in two steps.  createJob is an async function that awaits        *)
(* getNextQueuePosition inside the object literal of the new job, so a call   *)
(* for a queued job counts the queue, gives up control, and builds and        *)
(* stores the job when it is resumed; calls started before it is resumed run  *)
(* in between.  Here pending is the sequence of the createJob calls that      *)
(* have counted and wait to be resumed, in the order they will be resumed.    *)
(* The tick is a timer callback: it runs when no call is waiting.             *)

\* createJob up to the await: the id, the InsertJob and the position counted
createJobCall(js, id, b, s) ==
    [ id |-> id, backend |-> b, status |-> s,
      queuePosition |-> IF s = "queued" THEN Some(getNextQueuePosition(js, b)) ELSE Null ]

\* createJob from the await on: the Job is built and stored
createJobResume(js, c, t) ==
    js @@ (c.id :> [NewJob(js, c.id, c.backend, c.status, t)
                        EXCEPT !.queuePosition = c.queuePosition])

InFlightInit ==
    /\ jobs \in {f \in [1..SeedCount -> SeedShapes] : \A i \in 1..SeedCount : f[i].id = i}
    /\ backends = [b \in StoreBackends |-> [name |-> b, queueLength |-> SeedQueueLength[b]]]
    /\ now = 0
    /\ nextId = SeedCount + 1
    /\ pending = <<>>
    /\ ret = RetVoid
    /\ ops = 0

CreateJobBeginOp(b) ==
    /\ Step
    /\ nextId <= MaxJobs
    /\ pending' = Append(pending, createJobCall(jobs, nextId, b, "queued"))
    /\ nextId' = nextId + 1
    /\ UNCHANGED <<jobs, backends, now, ret>>

CreateJobResumeOp ==
    /\ pending # <<>>
    /\ jobs' = createJobResume(jobs, Head(pending), now)
    /\ pending' = Tail(pending)
    /\ ret' = RetJob
    /\ UNCHANGED <<backends, now, nextId, ops>>

CreateJobBegin == \E b \in JobBackends : CreateJobBeginOp(b)

InFlightTick == pending = <<>> /\ Tick

NextInFlight ==
    \/ CreateJobBegin
    \/ CreateJobResumeOp
    \/ UpdateJobStatus
    \/ DeleteJob
    \/ InFlightTick

SpecInFlight == InFlightInit /\ [][NextInFlight]_vars

----------------------------------------------------------------------------
(* The body of POST /api/jobs.  insertJobSchema comes from the jobs table:    *)
(* backend and status are notNull columns without a default, so both are      *)
(* required strings (any string); the extension adds the resource fields.     *)
(* An absent field of the body is Null.                                       *)

BodyBackends == {Null, Some("ibm_cairo")}
BodyStatuses == {Null, Some("queued"), Some("running")}
BodyShots == {0, 2^10}
BodyQubits == {5}

\* the required columns of createInsertSchema(jobs)
insertJobRequired(p) == p.backend # Null /\ p.status # Null

\* POST /api/jobs with the body p: 400 on a ZodError, else createJob and 201
PostJobsOp(p) ==
    /\ Step
    /\ IF insertJobRequired(p) /\ insertJobSchema(p)
         THEN /\ nextId <= MaxJobs
              /\ jobs' = createJob(jobs, nextId, p.backend[1], p.status[1], now)
              /\ nextId' = nextId + 1
              /\ ret' = RetHttp(201)
         ELSE /\ ret' = RetHttp(400)
              /\ UNCHANGED <<jobs, nextId>>
    /\ UNCHANGED <<backends, now, pending>>

PostJobs ==
    \E p \in [backend : BodyBackends, status : BodyStatuses, qubits : BodyQubits,
              shots : BodyShots, program : {"x"}] : PostJobsOp(p)

NextCreate ==
    \/ PostJobs
    \/ DeleteJob
    \/ Tick

SpecCreate == Init /\ [][NextCreate]_vars

----------------------------------------------------------------------------
(* Status transitions on their own: the sample jobs, PATCH                    *)
(* /api/jobs/:id/status with every status and error, the tick, and time.      *)

NextTransitions ==
    \/ UpdateJobStatus
    \/ Tick
    \/ Advance

SpecTransitions == Init /\ [][NextTransitions]_vars

----------------------------------------------------------------------------
(* The quest jobs to their end: POST /api/quantum/submit-job, its setTimeout  *)
(* callback, the tick and DELETE.  A timer that was set fires once its delay  *)
(* has passed, and time passes while a callback waits for it: both are        *)
(* weakly fair, and neither counts as an operation of the budget.             *)

\* the callback on the store: the in-place change, then updateJobStatus
questCallbackIdle(js, id, d, t) == js
questCallback(js, id, d, t) ==
    updateJobStatus(questMutate(js, id, d, t), id, "done", Null, t)

\* the callback of the job id fires (the delay is at least QuestMinDelay)
QuestTimerOp(id, d) ==
    /\ id \in pending
    /\ id \in DOMAIN jobs => now >= jobs[id].submissionTime + QuestMinDelay
    /\ jobs' = questCallback(jobs, id, d, now)
    /\ pending' = pending \ {id}
    /\ ret' = RetVoid
    /\ UNCHANGED <<backends, now, nextId, ops>>

QuestTimer(id) == \E d \in QuestDurations : QuestTimerOp(id, d)

QuestTimers == \E id \in JobIds : QuestTimer(id)

\* time passes, at least until every waiting callback may fire
QuestAdvance ==
    /\ \/ now < MaxClock * TimeStep
       \/ \E id \in pending \cap DOMAIN jobs :
             now < jobs[id].submissionTime + QuestMinDelay
    /\ now' = now + TimeStep
    /\ UNCHANGED <<jobs, backends, nextId, pending, ret, ops>>

NextQuest ==
    \/ SubmitQuest
    \/ QuestTimers
    \/ Tick
    \/ DeleteJob
    \/ QuestAdvance

SpecQuest ==
    /\ Init
    /\ [][NextQuest]_vars
    /\ WF_vars(QuestAdvance)
    /\ \A id \in JobIds : WF_vars(QuestTimer(id))

----------------------------------------------------------------------------
(* Properties *)

\* the jobs queued on backend b, counted field by field
QueuedCount(js, b) ==
    Cardinality({i \in DOMAIN js : js[i].backend = b /\ js[i].status = "queued"})

Kept == DOMAIN jobs \cap DOMAIN jobs'

\* the step is a scheduler tick (the only operation that returns nothing and
\* leaves the pending callbacks alone)
TickStep == ops' = ops + 1 /\ ret' = RetVoid /\ pending' = pending /\ Tick

\* C1: every stored job has a queue position exactly when it is queued
C1_QueuePositionIffQueued ==
    \A id \in DOMAIN jobs :
        (jobs[id].queuePosition # Null) <=> (jobs[id].status = "queued")

\* C2: a start time, once set, is never changed by a later step
C2_StartTimeSetOnce ==
    [][\A id \in Kept :
         jobs[id].startTime # Null => jobs'[id].startTime = jobs[id].startTime]_vars

\* C3, as claimed: every stored job has a duration exactly when it has an end time
C3_DurationIffEndTime ==
    \A id \in DOMAIN jobs :
        (jobs[id].duration # Null) <=> (jobs[id].endTime # Null)

\* C3, amended: a duration comes with an end time; an end time without a duration
\* appears only when a running job that has no start time is ended
C3_DurationOnlyMissingWithoutStart ==
    /\ [](\A id \in DOMAIN jobs : jobs[id].duration # Null => jobs[id].endTime # Null)
    /\ [][\A id \in DOMAIN jobs' :
            (jobs'[id].endTime # Null /\ jobs'[id].duration = Null)
            => /\ id \in DOMAIN jobs
               /\ \/ (jobs[id].endTime = jobs'[id].endTime /\ jobs[id].duration = Null)
                  \/ (jobs[id].status = "running" /\ jobs[id].startTime = Null)]_vars

C3_Witness ==
    \E id \in DOMAIN jobs :
        /\ jobs[id].status \in {"done", "failed"}
        /\ jobs[id].endTime # Null
        /\ jobs[id].duration = Null
        /\ jobs[id].startTime = Null

\* C4: a job enters the store queued with position 1 + the number of jobs then
\* queued on its backend (so its position is the number queued there once it is
\* in), and with no position under any other status; createJob and the tick alike
C4_NewJobQueuePosition ==
    [][\A id \in DOMAIN jobs' \ DOMAIN jobs :
         jobs'[id].queuePosition =
            IF jobs'[id].status = "queued"
              THEN Some(QueuedCount(jobs', jobs'[id].backend))
              ELSE Null]_vars

C4_Witness ==
    \E id \in DOMAIN jobs, other \in DOMAIN jobs :
        /\ id > SeedCount /\ other < id
        /\ jobs[id].status = "queued" /\ jobs[other].status = "queued"
        /\ jobs[id].backend = jobs[other].backend
        /\ jobs[id].queuePosition = Some(2)
        /\ ret \in {RetJob, RetVoid}

\* the jobs queued on b hold the positions 1..n in the order of their creation
InCreationOrder(js, b) ==
    LET Q == {i \in DOMAIN js : js[i].backend = b /\ js[i].status = "queued"}
    IN  \A i \in Q : js[i].queuePosition = Some(Cardinality({k \in Q : k <= i}))

\* C5: creating a queued job on a backend whose queued jobs hold 1..n in creation
\* order (none at first) leaves them holding 1..n+1 in creation order
C5_ConsecutivePositions ==
    [][\A b \in JobBackends \cup QuestBackends :
         (/\ nextId' = nextId + 1
          /\ InCreationOrder(jobs, b)
          /\ (CreateJobOp(b, "queued") \/ SubmitQuestOp(b)))
         => InCreationOrder(jobs', b)]_vars

C5_Witness ==
    /\ ops = 2 /\ ret = RetJob /\ nextId = SeedCount + 3
    /\ {SeedCount + 1, SeedCount + 2} \subseteq DOMAIN jobs
    /\ jobs[SeedCount + 1].backend = jobs[SeedCount + 2].backend
    /\ jobs[SeedCount + 1].status = "queued" /\ jobs[SeedCount + 2].status = "queued"
    /\ jobs[SeedCount + 1].queuePosition = Some(1)
    /\ jobs[SeedCount + 2].queuePosition = Some(2)

\* C6: updateJobStatus queued -> running at T0 clears the position and sets
\* startTime = T0; running -> done at T1 with no error argument sets endTime = T1,
\* duration = the whole seconds in T1 - T0, and error = null
C6_StartThenDone ==
    [][\A id \in DOMAIN jobs :
         /\ \A e \in ErrorArgs :
              (ret' = RetJob /\ jobs[id].status = "queued" /\ UpdateJobStatusOp(id, "running", e))
              => /\ jobs'[id].queuePosition = Null
                 /\ jobs'[id].startTime = Some(now)
         /\ (/\ ret' = RetJob
             /\ jobs[id].status = "running"
             /\ jobs[id].startTime # Null
             /\ UpdateJobStatusOp(id, "done", Null))
            => /\ jobs'[id].endTime = Some(now)
               /\ jobs'[id].duration # Null
               /\ jobs'[id].duration[1] * MsPerSecond <= now - jobs[id].startTime[1]
               /\ now - jobs[id].startTime[1] < (jobs'[id].duration[1] + 1) * MsPerSecond
               /\ jobs'[id].error = Null]_vars

C6_Witness ==
    \E id \in DOMAIN jobs :
        /\ id > SeedCount /\ ret = RetJob /\ ops = 3
        /\ jobs[id].status = "done"
        /\ jobs[id].queuePosition = Null
        /\ jobs[id].startTime = Some(0)
        /\ jobs[id].endTime = Some(TimeStep)
        /\ jobs[id].duration = Some(2)
        /\ jobs[id].error = Null

\* C7, as claimed: a tick produces no queued job without a position, and no done
\* or failed job without a start time
C7_TickProducesNoUnstartedResult ==
    [][TickStep =>
        \A id \in DOMAIN jobs' :
            /\ (jobs'[id].status = "queued" /\ jobs'[id].queuePosition = Null)
               => (id \in DOMAIN jobs /\ jobs[id] = jobs'[id])
            /\ (jobs'[id].status \in {"done", "failed"} /\ jobs'[id].startTime = Null)
               => (id \in DOMAIN jobs /\ jobs[id].status = jobs'[id].status)]_vars

\* C7, amended: a tick produces no queued job without a position; a done or failed
\* job without a start time comes out of a tick only if the job was running
\* without a start time when the tick began
C7_TickResultUnstartedOnlyIfRunningUnstarted ==
    [][TickStep =>
        \A id \in DOMAIN jobs' :
            /\ (jobs'[id].status = "queued" /\ jobs'[id].queuePosition = Null)
               => (id \in DOMAIN jobs /\ jobs[id] = jobs'[id])
            /\ (jobs'[id].status \in {"done", "failed"} /\ jobs'[id].startTime = Null)
               => /\ id \in DOMAIN jobs
                  /\ \/ jobs[id].status = jobs'[id].status
                     \/ (jobs[id].status = "running" /\ jobs[id].startTime = Null)]_vars

C7_Witness ==
    /\ ret = RetVoid /\ ops > 0 /\ pending = {}
    /\ \E id \in DOMAIN jobs :
        /\ jobs[id].status \in {"done", "failed"}
        /\ jobs[id].startTime = Null
        /\ jobs[id].endTime = Some(now)

\* C8: right after a tick every backend's queueLength is the number of jobs queued
\* on it, the jobs the tick promoted, resolved and spawned included
C8_ReconciledAfterTick ==
    [][TickStep =>
        \A k \in DOMAIN backends' :
            backends'[k].queueLength = QueuedCount(jobs', backends'[k].name)]_vars

C8_Witness ==
    /\ ret = RetVoid /\ ops > 0
    /\ \E k \in DOMAIN backends :
        /\ backends[k].queueLength = 2
        /\ QueuedCount(jobs, k) = 2
    /\ \E k \in DOMAIN backends : backends[k].queueLength = 0

\* C9: successRate is 100 * done / (done + failed) to the nearest tenth, 0 when
\* nothing is done or failed, 100 when all of those are done, 50 for 2 and 2
C9_SuccessRate ==
    [][GetJobStats =>
        LET d == Cardinality({i \in DOMAIN jobs : jobs[i].status = "done"})
            f == Cardinality({i \in DOMAIN jobs : jobs[i].status = "failed"})
            r == ret'.stats.successRateTenths
        IN  /\ d + f = 0 => r = 0
            /\ d + f > 0 => /\ 2 * (r * (d + f) - 1000 * d) <= d + f
                            /\ 2 * (1000 * d - r * (d + f)) <= d + f
            /\ (d > 0 /\ f = 0) => r = 1000
            /\ (d = 2 /\ f = 2) => r = 500]_vars

C9_Witness ==
    /\ ret.kind = "stats"
    /\ ret.stats.successRateTenths = 667
    /\ Cardinality({i \in DOMAIN jobs : jobs[i].status = "done"}) = 2
    /\ Cardinality({i \in DOMAIN jobs : jobs[i].status = "failed"}) = 1
    /\ Cardinality(DOMAIN jobs) = 4

\* C10: deleteJob of an absent id returns false and changes nothing; of a present
\* id returns true and removes that job alone; a deleted id stays absent, so every
\* later deleteJob of it returns false
C10_DeleteJob ==
    [][/\ \A id \in JobIds :
            (ret'.kind = "bool" /\ DeleteJobOp(id)) =>
                IF id \in DOMAIN jobs
                  THEN /\ ret' = RetBool(TRUE)
                       /\ DOMAIN jobs' = DOMAIN jobs \ {id}
                       /\ \A i \in DOMAIN jobs' : jobs'[i] = jobs[i]
                  ELSE /\ ret' = RetBool(FALSE)
                       /\ jobs' = jobs
                       /\ backends' = backends
       /\ \A id \in JobIds :
            (id < nextId /\ id \notin DOMAIN jobs) => id \notin DOMAIN jobs']_vars

C10_Witness ==
    /\ ret = RetBool(FALSE) /\ ops = 2
    /\ DOMAIN jobs = {}
    /\ nextId = SeedCount + 1

\* C11: updateJobStatus of an id that is not in the store returns undefined (no
\* exception), adds no job and leaves every job and backend as it was; the PATCH
\* route answers 404
C11_UnknownIdNotFound ==
    [][\A id \in JobIds :
         (/\ id \notin DOMAIN jobs
          /\ ops' = ops + 1 /\ nextId' = nextId /\ pending' = pending
          /\ ret'.kind \in {"job", "none"}
          /\ \E s \in RequestStatuses, e \in ErrorArgs : UpdateJobStatusOp(id, s, e))
         => /\ ret' = RetNone
            /\ patchStatusResponse(ret') = 404
            /\ jobs' = jobs
            /\ backends' = backends]_vars

C11_Witness ==
    /\ ret = RetNone /\ ops = 1
    /\ patchStatusResponse(ret) = 404
    /\ DOMAIN jobs = 1..SeedCount

\* C12: deleting a queued job leaves every other job in the store with all its
\* fields, the queue position included: of three jobs queued on one backend at
\* positions 1, 2, 3, the third keeps position 3 after the second is deleted
C12_DeleteKeepsOtherJobs ==
    [][\A id \in DOMAIN jobs :
         (/\ ops' = ops + 1 /\ nextId' = nextId /\ pending' = pending
          /\ jobs[id].status = "queued"
          /\ DeleteJobOp(id))
         => \A k \in DOMAIN jobs \ {id} :
               /\ k \in DOMAIN jobs'
               /\ jobs'[k].queuePosition = jobs[k].queuePosition
               /\ jobs'[k] = jobs[k]]_vars

C12_Witness ==
    /\ ops = 3 /\ ret = RetBool(TRUE)
    /\ DOMAIN jobs = {SeedCount, SeedCount + 2}
    /\ jobs[SeedCount].backend = jobs[SeedCount + 2].backend
    /\ jobs[SeedCount].status = "queued" /\ jobs[SeedCount + 2].status = "queued"
    /\ jobs[SeedCount].queuePosition = Some(1)
    /\ jobs[SeedCount + 2].queuePosition = Some(3)

\* C13: every stored job has one of the five statuses of JobStatus
C13_StatusInEnum ==
    \A id \in DOMAIN jobs : jobs[id].status \in JobStatus

\* C14: a stored job has an error only if its status is failed
C14_ErrorOnlyIfFailed ==
    \A id \in DOMAIN jobs : jobs[id].error # Null => jobs[id].status = "failed"

\* C15: a stored job has an end time exactly when its status is done or failed
C15_EndTimeIffEnded ==
    \A id \in DOMAIN jobs :
        (jobs[id].endTime # Null) <=> (jobs[id].status \in {"done", "failed"})

\* C16: a duration that is set is never negative
C16_DurationNonNegative ==
    \A id \in DOMAIN jobs : jobs[id].duration # Null => jobs[id].duration[1] >= 0

\* C19: a job that stays in the store changes only in a scheduler tick or as
\* updateJobStatus changes it, for some status and error argument
C19_ChangedOnlyByTransitionOrTick ==
    [][\A id \in Kept :
         jobs'[id] # jobs[id]
         => \/ TickStep
            \/ \E s \in RequestStatuses, e \in ErrorArgs :
                  jobs'[id] = UpdatedJob(jobs[id], s, e, now)]_vars

\* C17: a backend's queueLength changes only in a scheduler tick, and a backend
\* that enters the store does so with queueLength 0 or the number of jobs queued
\* on it, never with a value the caller chose
C17_QueueLengthSchedulerOwned ==
    [][\A k \in DOMAIN backends' :
         IF k \in DOMAIN backends
           THEN backends'[k].queueLength # backends[k].queueLength => TickStep
           ELSE backends'[k].queueLength \in {0, QueuedCount(jobs', k)}]_vars

\* C18: every stored job has qubits in 1..1000 and shots in 1..100000, and a
\* creation request answered 400 leaves the store as it was
C18_ResourcesInRange ==
    /\ [](\A id \in DOMAIN jobs :
            /\ jobs[id].qubits \in MinQubits..MaxQubits
            /\ jobs[id].shots \in MinShots..MaxShots)
    /\ [][ret' = RetHttp(400) => jobs' = jobs]_vars

\* C20: the trends are 7 entries for the 7 consecutive days that end today,
\* oldest first, each with the number of stored jobs submitted on that day
C20_TrendsCountEveryJob ==
    ret.kind = "trends" =>
        /\ DOMAIN ret.trends = 1..7
        /\ \A i \in 1..7 :
              /\ ret.trends[i].date = dayOf(now) - 7 + i
              /\ ret.trends[i].count =
                    Cardinality({k \in DOMAIN jobs :
                        dayOf(jobs[k].submissionTime) = ret.trends[i].date})


\* C21: the job list reports totalJobs = the number of stored jobs and
\* totalPages = ceil(totalJobs / limit), and page p holds the stored jobs of
\* places (p-1)*limit+1 .. p*limit in descending submissionTime order, so that
\* the pages 1..totalPages hold every stored job exactly once
C21_PagesCoverStore ==
    ret.kind = "page" =>
        LET n      == Cardinality(DOMAIN jobs)
            limit  == ret.pagination.limit
            offset == (ret.pagination.currentPage - 1) * limit
            size   == IF n <= offset THEN 0
                      ELSE IF n - offset < limit THEN n - offset ELSE limit
        IN  /\ ret.pagination.totalJobs = n
            /\ ret.pagination.totalPages * limit >= n
            /\ (ret.pagination.totalPages - 1) * limit < n
            /\ Len(ret.jobs) = size
            /\ \A k \in 1..Len(ret.jobs) :
                  /\ ret.jobs[k] \in DOMAIN jobs
                  /\ rank(jobs, ret.jobs[k]) = offset + k


C23_CreateJobAtomic ==
    /\ [](\A i \in 1..Len(pending), k \in 1..Len(pending) :
            (i < k /\ pending[i].backend = pending[k].backend)
                => pending[i].queuePosition # pending[k].queuePosition)
    /\ [][\A id \in DOMAIN jobs' \ DOMAIN jobs :
            jobs'[id].status = "queued" =>
                jobs'[id].queuePosition = Some(QueuedCount(jobs', jobs'[id].backend))]_vars


\* C24: a creation request that names a backend and valid resources but no
\* status stores a new job with status queued and the queue position that is
\* its rank among the jobs queued on its backend
C24_DefaultStatusQueued ==
    [][\A p \in [backend : BodyBackends \ {Null}, status : {Null}, qubits : BodyQubits,
                 shots : {2^10}, program : {"x"}] :
          (nextId <= MaxJobs /\ ops' = ops + 1 /\ PostJobsOp(p)) =>
              /\ nextId \in DOMAIN jobs'
              /\ jobs'[nextId].status = "queued"
              /\ jobs'[nextId].queuePosition =
                    Some(QueuedCount(jobs', jobs'[nextId].backend))]_vars


\* C25: every job is stored under the key that is its id, and no step, a
\* status transition or a tick in particular, changes the id or the
\* submissionTime of a job that stays in the store
C25_IdAndSubmissionTimeKept ==
    /\ [](\A k \in DOMAIN jobs : jobs[k].id = k)
    /\ [][\A k \in Kept :
            /\ jobs'[k].id = jobs[k].id
            /\ jobs'[k].submissionTime = jobs[k].submissionTime]_vars

\* a job submitted at time 0 was started by a transition or a tick at a later
\* time and then ended by a tick
C25_Witness ==
    /\ ret = RetVoid
    /\ ops = 3
    /\ now = TimeStep
    /\ \E k \in DOMAIN jobs :
          /\ jobs[k].id = k
          /\ jobs[k].submissionTime = 0
          /\ jobs[k].startTime = Some(TimeStep)
          /\ jobs[k].endTime = Some(TimeStep)
          /\ jobs[k].status \in {"done", "failed"}


\* C26: no two queued jobs on the same backend have the same queuePosition
C26_QueuePositionsDistinct ==
    \A i \in DOMAIN jobs, k \in DOMAIN jobs :
        (/\ i # k
         /\ jobs[i].status = "queued" /\ jobs[k].status = "queued"
         /\ jobs[i].backend = jobs[k].backend)
            => jobs[i].queuePosition # jobs[k].queuePosition


\* C27: within one tick no job advances by more than one state: a job queued
\* before the tick is queued or running after it, and a job is ended by the
\* tick only if it was running before the tick (so a tick that starts with no
\* running job ends none, even when it promotes one)
C27_OneStatePerTick ==
    [][TickStep =>
        \A k \in Kept :
            /\ jobs[k].status = "queued" => jobs'[k].status \in {"queued", "running"}
            /\ (jobs'[k].status # jobs[k].status /\ jobs'[k].status \in {"done", "failed"})
                  => jobs[k].status = "running"
            /\ (StatusIds(jobs, "running") = {} /\ jobs'[k].status # jobs[k].status)
                  => jobs'[k].status = "running"]_vars

\* a tick that started with no running job promoted the job created before it
C27_Witness ==
    /\ ret = RetVoid
    /\ ops = 2
    /\ nextId = SeedCount + 2
    /\ StatusIds(jobs, "running") = {SeedCount + 1}
    /\ jobs[SeedCount + 1].startTime = Some(now)
    /\ jobs[SeedCount + 1].endTime = Null
    /\ StatusIds(jobs, "done") \cup StatusIds(jobs, "failed") = {}


\* C28: a tick only moves jobs forward: it starts at most one queued job,
\* ends at most one running job as done or failed, changes no other job,
\* removes none, and adds at most one job, which is queued
C28_TickMovesForward ==
    [][TickStep =>
        LET started == {k \in Kept : jobs[k].status = "queued" /\ jobs'[k].status = "running"}
            ended   == {k \in Kept : jobs[k].status = "running" /\ jobs'[k].status \in {"done", "failed"}}
            added   == DOMAIN jobs' \ DOMAIN jobs
        IN  /\ DOMAIN jobs \subseteq DOMAIN jobs'
            /\ Cardinality(started) <= 1
            /\ Cardinality(ended) <= 1
            /\ Cardinality(added) <= 1
            /\ \A k \in added : jobs'[k].status = "queued"
            /\ \A k \in Kept : jobs'[k] # jobs[k] => k \in started \cup ended
            /\ \A k \in Kept :
                  jobs[k].status \in {"done", "failed", "cancelled"} => jobs'[k] = jobs[k]
            /\ \A k \in Kept :
                  jobs'[k].status # jobs[k].status => jobs'[k].status \notin {"queued", "cancelled"}]_vars

\* one tick has started a queued job, ended a running job and added a job
C28_Witness ==
    /\ ret = RetVoid
    /\ ops = 2
    /\ DOMAIN jobs = 1..3
    /\ \E a \in 1..2, c \in 1..2 :
          /\ a # c
          /\ jobs[a].status = "running" /\ jobs[a].startTime = Some(now)
          /\ jobs[c].status \in {"done", "failed"} /\ jobs[c].endTime = Some(now)
    /\ jobs[3].status = "queued" /\ jobs[3].submissionTime = now


\* C29: transitionStatus is idempotent: from every state of the store, for
\* every stored job, status s and error e, the call transitionStatus(id, s, e)
\* made twice, the second time at a later time, leaves the store (status,
\* queuePosition, startTime, endTime, duration and error of the job) as the
\* call made once leaves it
C29_TransitionIdempotent ==
    \A id \in DOMAIN jobs, s \in RequestStatuses, e \in ErrorArgs :
        updateJobStatus(updateJobStatus(jobs, id, s, e, now), id, s, e, now + TimeStep)
            = updateJobStatus(jobs, id, s, e, now)

\* the job added queued at time 0 was set to running twice, the second time
\* at a later time, and kept the startTime of the first call
C29_Witness ==
    /\ ret = RetJob
    /\ ops = 3
    /\ now = TimeStep
    /\ nextId = SeedCount + 2
    /\ jobs[SeedCount + 1].status = "running"
    /\ jobs[SeedCount + 1].submissionTime = 0
    /\ jobs[SeedCount + 1].startTime = Some(0)


\* C30: the callback of every submitted quest job runs, whatever ticks come
\* in between; when it has run on a job that is still stored the job is done
\* or failed, and no later tick changes the status of an ended job; when the
\* job was deleted before, the callback leaves the store as it is and returns
C30_QuestJobEnds ==
    /\ \A id \in JobIds :
          (id \in pending) ~>
              (id \notin pending /\ (id \in DOMAIN jobs => jobs[id].status \in {"done", "failed"}))
    /\ [][\A id \in pending \ pending' :
            /\ ret' = RetVoid
            /\ id \in DOMAIN jobs =>
                  (id \in DOMAIN jobs' /\ jobs'[id].status \in {"done", "failed"})
            /\ id \notin DOMAIN jobs => (jobs' = jobs /\ backends' = backends)]_vars
    /\ [][TickStep =>
            \A k \in Kept :
                jobs[k].status \in {"done", "failed"} => jobs'[k].status = jobs[k].status]_vars

\* every callback has run, one of them on a quest job that a tick had started
\* before, and time has passed since
C30_Witness ==
    /\ pending = {}
    /\ ops = 3
    /\ \E id \in DOMAIN jobs :
          /\ jobs[id].backend \in QuestBackends
          /\ jobs[id].status = "done"
          /\ jobs[id].startTime # Null
          /\ jobs[id].endTime # Null
          /\ jobs[id].endTime[1] < now

====
